---- MODULE Spec2Model ----
(***************************************************************************)
(* Markdown -> NDJSON -> fine-tuning pipeline of docs/technical/konva.     *)
(*                                                                         *)
(* script = 1 : docs/technical/konva/convert_to_ndjson.py                   *)
(* script = 2 : docs/technical/konva/json/convert_minimax_guide.py          *)
(*                                                                         *)
(* A string is a sequence of one-character strings; a document is the      *)
(* sequence of lines content.split('\n') returns (never empty).  The       *)
(* character "E" stands for a two-byte UTF-8 character (e-acute).  Only   *)
(* the fixed pieces of text of a fine-tuning record, whose characters and  *)
(* length decide nothing, are kept as one element each.                    *)
(***************************************************************************)
EXTENDS Integers, Sequences, FiniteSets, TLC

\* ------------------------------------------------------------------ bounds
MaxLines == 4          \* longest document, in lines
MaxBudgetSteps == 2    \* max_file_size ranges over BudgetStep * 1..MaxBudgetSteps
MaxParts == 10         \* most shard files present before the transformer runs
MaxShardLines == 2     \* longest hand-made shard file, in lines
MaxRuns == 2           \* invocations of convert_ndjson_to_finetuning in a row
MaxStale == 2          \* most shards left behind by an earlier run of main

BudgetStep == 150      \* granularity of the shard budgets tried, in bytes

\* ------------------------------------------------------------ string tools
Whitespace == {" ", "\t", "\n", "\r"}

RECURSIVE LStripSet(_, _)
\* str.lstrip(chars)
LStripSet(s, chars) ==
    IF s # <<>> /\ Head(s) \in chars THEN LStripSet(Tail(s), chars) ELSE s

RECURSIVE RStripSet(_, _)
\* str.rstrip(chars)
RStripSet(s, chars) ==
    IF s # <<>> /\ s[Len(s)] \in chars
    THEN RStripSet(SubSeq(s, 1, Len(s) - 1), chars) ELSE s

\* str.strip()
Strip(s) == RStripSet(LStripSet(s, Whitespace), Whitespace)

\* str.startswith(prefix)
StartsWith(s, prefix) ==
    Len(s) >= Len(prefix) /\ SubSeq(s, 1, Len(prefix)) = prefix

\* str.endswith(suffix)
EndsWith(s, suffix) ==
    Len(s) >= Len(suffix) /\ SubSeq(s, Len(s) - Len(suffix) + 1, Len(s)) = suffix

RECURSIVE Join(_, _)
\* sep.join(parts)
Join(parts, sep) ==
    IF parts = <<>> THEN <<>>
    ELSE IF Len(parts) = 1 THEN parts[1]
    ELSE parts[1] \o sep \o Join(Tail(parts), sep)

RECURSIVE SplitOn(_, _)
\* str.split(sep) for a one-character sep: never returns an empty list
SplitOn(s, sep) ==
    IF \A k \in 1..Len(s) : s[k] # sep THEN <<s>>
    ELSE LET k == CHOOSE j \in 1..Len(s) :
                      s[j] = sep /\ \A m \in 1..(j - 1) : s[m] # sep
         IN  <<SubSeq(s, 1, k - 1)>> \o SplitOn(SubSeq(s, k + 1, Len(s)), sep)

RECURSIVE LeadingHashes(_)
LeadingHashes(s) ==
    IF s # <<>> /\ Head(s) = "#" THEN 1 + LeadingHashes(Tail(s)) ELSE 0

Introduction == <<"I", "n", "t", "r", "o", "d", "u", "c", "t", "i", "o", "n">>

RECURSIVE Replace(_, _, _)
\* str.replace(old, new), old not empty
Replace(s, old, new) ==
    IF Len(s) < Len(old) THEN s
    ELSE IF StartsWith(s, old)
         THEN new \o Replace(SubSeq(s, Len(old) + 1, Len(s)), old, new)
         ELSE <<Head(s)>> \o Replace(Tail(s), old, new)

\* ------------------------------------------------------------------ inputs
LineSet ==
    { <<>>,
      <<"a">>,
      <<" ", "E">>,
      <<"#", " ", "T">>,
      <<"#", "#", " ", "U">>,
      <<"#", "#", "#", "#", " ", "x">> }

RECURSIVE SeqsUpTo(_, _)
SeqsUpTo(S, n) ==
    IF n = 0 THEN {<<>>}
    ELSE LET shorter == SeqsUpTo(S, n - 1)
         IN  shorter \cup {Append(q, x) : q \in {p \in shorter : Len(p) = n - 1}, x \in S}

Documents == SeqsUpTo(LineSet, MaxLines) \ {<<>>}

\* --------------------------------------------------------- fixed strings
file_name ==
    <<"d", "o", "c">>

id_prefix ==
    <<"k", "o", "n", "v", "a", "-", "m", "i", "n", "i", "m", "a", "x", "-",
      "g", "u", "i", "d", "e", "_">>

guide_source ==
    <<"c", "o", "m", "p", "r", "e", "h", "e", "n", "s", "i", "v", "e", "_",
      "k", "o", "n", "v", "a", "j", "s", "_", "d", "o", "c", "u", "m", "e",
      "n", "t", "a", "t", "i", "o", "n", "_", "g", "u", "i", "d", "e", ".",
      "m", "d">>

base_output ==
    <<"k", "o", "n", "v", "a", "-", "m", "i", "n", "i", "m", "a", "x", "-",
      "g", "u", "i", "d", "e">>

dot_ndjson == <<".", "n", "d", "j", "s", "o", "n">>

part_infix == <<"_", "p", "a", "r", "t", "_">>

section_infix == <<"_", "s", "e", "c", "t", "i", "o", "n", "_">>

finetuning_suffix ==
    <<"_", "f", "i", "n", "e", "t", "u", "n", "i", "n", "g", ".", "n", "d",
      "j", "s", "o", "n">>

Digits == <<"0", "1", "2", "3", "4", "5", "6", "7", "8", "9">>

RECURSIVE Decimal(_)
\* str(n) / f"{n}" for n >= 0
Decimal(n) ==
    IF n < 10 THEN <<Digits[n + 1]>>
    ELSE Decimal(n \div 10) \o <<Digits[(n % 10) + 1]>>

\* f"{n:03d}"
Decimal03(n) ==
    LET d == Decimal(n)
    IN  IF Len(d) = 1 THEN <<"0", "0">> \o d
        ELSE IF Len(d) = 2 THEN <<"0">> \o d
        ELSE d

\* ------------------------------------------------------------------- JSON
\* json.dumps(str, ensure_ascii=False), without the surrounding quotes
EscapeChar(c) ==
    IF c = "\n" THEN <<"\\", "n">>
    ELSE IF c = "\t" THEN <<"\\", "t">>
    ELSE IF c = "\r" THEN <<"\\", "r">>
    ELSE IF c = "\\" THEN <<"\\", "\\">>
    ELSE IF c = "\"" THEN <<"\\", "\"">>
    ELSE <<c>>

RECURSIVE Escape(_)
Escape(s) == IF s = <<>> THEN <<>> ELSE EscapeChar(Head(s)) \o Escape(Tail(s))

UnescapeChar(c) ==
    IF c = "n" THEN "\n"
    ELSE IF c = "t" THEN "\t"
    ELSE IF c = "r" THEN "\r"
    ELSE c

RECURSIVE Unescape(_)
\* the string a JSON string literal denotes (json.loads)
Unescape(s) ==
    IF s = <<>> THEN <<>>
    ELSE IF Head(s) = "\\" /\ Len(s) >= 2
         THEN <<UnescapeChar(s[2])>> \o Unescape(SubSeq(s, 3, Len(s)))
         ELSE <<Head(s)>> \o Unescape(Tail(s))

\* bytes of one character in UTF-8
Utf8Char(c) == IF c = "E" THEN 2 ELSE 1

RECURSIVE Utf8Len(_)
\* len(s.encode('utf-8'))
Utf8Len(s) == IF s = <<>> THEN 0 ELSE Utf8Char(Head(s)) + Utf8Len(Tail(s))

\* json.dumps(record, ensure_ascii=False): the text of one NDJSON line.  A
\* line of text is kept as its kind t ("obj", "blank" or "bad") and, for an
\* object, its members with every string as the escaped text between quotes.
Dumps(record) ==
    [t |-> "obj",
     v |-> [id |-> Escape(record.id),
            source_file |-> Escape(record.source_file),
            section_index |-> record.section_index,
            heading_level |-> record.heading_level,
            title |-> Escape(record.title),
            content |-> Escape(record.content),
            content_length |-> record.content_length]]

\* braces, quotes, ": " and ", " separators and the key names of a record of
\* the seven members, plus the line feed
RecordOverhead ==
    2 + (7 * 4) + (6 * 2) + (4 * 2) + (2 + 11 + 13 + 13 + 5 + 7 + 14) + 1

\* len((json.dumps(record) + '\n').encode('utf-8'))
LineSize(line) ==
    RecordOverhead
    + Utf8Len(line.v.id) + Utf8Len(line.v.source_file)
    + Len(Decimal(line.v.section_index)) + Len(Decimal(line.v.heading_level))
    + Utf8Len(line.v.title) + Utf8Len(line.v.content)
    + Len(Decimal(line.v.content_length))

RECURSIVE FileSize(_)
\* size in bytes of a file of record lines
FileSize(file) ==
    IF file = <<>> THEN 0 ELSE LineSize(Head(file)) + FileSize(Tail(file))

\* ------------------------------------------------------------------ state
VARIABLES
    script,            \* 1: convert_to_ndjson.py, 2: convert_minimax_guide.py
    lines,             \* content.split('\n')
    pc,                \* position in the run
    i,                 \* lines consumed by the splitter's loop
    sections,          \* the splitter's result so far
    current_section,   \* the section being accumulated (None in script 2)
    section_index,     \* script 2: index given to the next section opened
    max_file_size,     \* MAX_FILE_SIZE / max_file_size
    idx,               \* sections consumed by the writer's loop
    current_file_size,
    part_num,          \* file_number / part_num
    output_records,    \* script 1: lines held back for the current shard
    current_output,    \* script 2: name of the shard open for writing, or None
    record_count,
    dir,               \* the output directory: file name -> lines of the file
    written,           \* names of the shards this run of the writer opened
    input_file,        \* argument of convert_ndjson_to_finetuning
    input_files,       \* the files it decided to process, in order
    fk,                \* input files finished
    lineno,            \* lines consumed of the input file being read
    output_path,       \* its output file
    opened,            \* the files the current invocation opened for reading, in order
    runs,              \* invocations of convert_ndjson_to_finetuning so far
    first_dir,         \* the directory as the first invocation left it
    error              \* the exception that ended the transformer, or "none"

convert_vars ==
    <<script, lines, i, sections, current_section, section_index,
      max_file_size, idx, current_file_size, part_num, output_records,
      current_output, record_count, written>>

ft_vars ==
    <<input_file, input_files, fk, lineno, output_path, opened, runs, first_dir,
      error>>

vars == <<convert_vars, ft_vars, pc, dir>>

None == [none |-> TRUE]

NoFiles == [n \in {} |-> <<>>]

\* the directory after (re)writing file p with the lines file
WriteFile(d, p, file) ==
    [n \in (DOMAIN d) \cup {p} |-> IF n = p THEN file ELSE d[n]]

MaxFileSizes == {k * BudgetStep : k \in 1..MaxBudgetSteps}

\* ---------------------------------------------- script 1: splitter (12-57)
NewSectionA(line, strip_chars, level) ==
    [title |-> Strip(LStripSet(line, strip_chars)), level |-> level, content |-> <<>>]

\* a faulty detection: '## ' is not taken for a heading
HeadingLevelA_NoLevel2(line) ==
    IF StartsWith(line, <<"#", " ">>) THEN 1
    ELSE IF StartsWith(line, <<"#", "#", "#", " ">>) THEN 3
    ELSE 0

\* the level of the heading line, 0 when the line is no heading
HeadingLevelA(line) ==
    IF StartsWith(line, <<"#", " ">>) THEN 1
    ELSE IF StartsWith(line, <<"#", "#", " ">>) THEN 2
    ELSE IF StartsWith(line, <<"#", "#", "#", " ">>) THEN 3
    ELSE 0

\* a faulty check: 'and' for 'or'
KeepA_And(section, level) ==
    IF level \in {2, 3} THEN section.content # <<>>
    ELSE section.content # <<>> /\ section.title # Introduction

\* the check made before a section is appended, at a heading of this level
\* (level 0: at the end of the input)
KeepA(section, level) ==
    IF level \in {2, 3} THEN section.content # <<>>
    ELSE section.content # <<>> \/ section.title # Introduction

A_SplitLine ==
    /\ script = 1 /\ pc = "split" /\ i < Len(lines)
    /\ LET line == lines[i + 1]
           level == HeadingLevelA(line)
       IN  IF level > 0
           THEN /\ sections' = IF KeepA(current_section, level)
                               THEN Append(sections, current_section)
                               ELSE sections
                /\ current_section' = NewSectionA(line, {"#", " "}, level)
           ELSE /\ sections' = sections
                /\ current_section' =
                       [current_section EXCEPT !.content = Append(@, line)]
    /\ i' = i + 1
    /\ UNCHANGED <<script, lines, section_index, max_file_size, idx,
                   current_file_size, part_num, output_records, current_output,
                   record_count, written, ft_vars, pc, dir>>

A_SplitEnd ==
    /\ script = 1 /\ pc = "split" /\ i = Len(lines)
    /\ sections' = IF KeepA(current_section, 0)
                   THEN Append(sections, current_section)
                   ELSE sections
    /\ \E m \in MaxFileSizes : max_file_size' = m
    /\ pc' = "write"
    /\ UNCHANGED <<script, lines, i, current_section, section_index, idx,
                   current_file_size, part_num, output_records, current_output,
                   record_count, written, ft_vars, dir>>

\* ---------------------------------------------- script 2: splitter (13-69)
\* re.match(r'^(#{1,3})\s+(.+)$', line)
HeadingMatch(line) ==
    LET h == LeadingHashes(line)
    IN  h \in 1..3 /\ Len(line) >= h + 2 /\ line[h + 1] \in Whitespace

\* heading_match.group(2).strip()
HeadingText(line) == Strip(SubSeq(line, LeadingHashes(line) + 1, Len(line)))

\* current_section and current_section['content'].strip()
KeepB(section) == section # None /\ Strip(section.content) # <<>>

\* a faulty count: section_index is never advanced
NextIndexB_Stuck(index, appended) == index

\* the index of the section opened after the section before it was, or was
\* not, appended
NextIndexB(index, appended) == IF appended THEN index + 1 ELSE index

B_SplitLine ==
    /\ script = 2 /\ pc = "split" /\ i < Len(lines)
    /\ LET line == lines[i + 1]
           index == NextIndexB(section_index, KeepB(current_section))
       IN  IF HeadingMatch(line)
           THEN /\ sections' = IF KeepB(current_section)
                               THEN Append(sections, current_section)
                               ELSE sections
                /\ section_index' = index
                /\ current_section' =
                       [section_index |-> index,
                        heading_level |-> LeadingHashes(line),
                        title |-> HeadingText(line),
                        content |-> <<>>,
                        content_length |-> 0]
           ELSE /\ sections' = sections
                /\ section_index' = section_index
                /\ current_section' =
                       IF current_section # None
                       THEN [current_section EXCEPT
                                 !.content = @ \o line \o <<"\n">>]
                       ELSE current_section
    /\ i' = i + 1
    /\ UNCHANGED <<script, lines, max_file_size, idx, current_file_size,
                   part_num, output_records, current_output, record_count,
                   written, ft_vars, pc, dir>>

\* lines 61-67: strip every content, set content_length, drop the empty ones
CleanUp(secs) ==
    LET clean == [k \in 1..Len(secs) |->
                     [secs[k] EXCEPT !.content = Strip(secs[k].content),
                                     !.content_length = Len(Strip(secs[k].content))]]
    IN  SelectSeq(clean, LAMBDA sec : sec.content_length > 0)

B_SplitEnd ==
    /\ script = 2 /\ pc = "split" /\ i = Len(lines)
    /\ sections' = CleanUp(IF KeepB(current_section)
                           THEN Append(sections, current_section)
                           ELSE sections)
    /\ \E m \in MaxFileSizes : max_file_size' = m
    /\ pc' = "write"
    /\ UNCHANGED <<script, lines, i, current_section, section_index, idx,
                   current_file_size, part_num, output_records, current_output,
                   record_count, written, ft_vars, dir>>

\* ------------------------------------------------ script 1: writer (74-123)
RecordA(index, section) ==
    [id |-> file_name \o section_infix \o Decimal(index),
     source_file |-> file_name,
     section_index |-> index,
     heading_level |-> section.level,
     title |-> section.title,
     content |-> Join(section.content, <<"\n">>),
     content_length |-> Len(Join(section.content, <<"\n">>))]

\* f'{file_name}_part_{file_number}.ndjson'
ShardNameA(n) == file_name \o part_infix \o Decimal(n) \o dot_ndjson

\* a faulty test: the size of the line to add is left out
NeedNewFile_NoLineSize(size, limit, line_size, has_records) ==
    size > limit /\ has_records

\* a faulty test: a shard without records is closed too
NeedNewFile_NoGuard(size, limit, line_size, has_records) ==
    size + line_size > limit

\* the test that closes the current shard before a line of this size is added
NeedNewFile(size, limit, line_size, has_records) ==
    size + line_size > limit /\ has_records

A_WriteRecord ==
    /\ script = 1 /\ pc = "write" /\ idx < Len(sections)
    /\ LET json_line == Dumps(RecordA(idx, sections[idx + 1]))
           json_line_size == LineSize(json_line)
       IN  IF NeedNewFile(current_file_size, max_file_size, json_line_size,
                          output_records # <<>>)
           THEN /\ dir' = WriteFile(dir, ShardNameA(part_num), output_records)
                /\ written' = written \cup {ShardNameA(part_num)}
                /\ output_records' = <<json_line>>
                /\ current_file_size' = json_line_size
                /\ part_num' = part_num + 1
           ELSE /\ output_records' = Append(output_records, json_line)
                /\ current_file_size' = current_file_size + json_line_size
                /\ UNCHANGED <<dir, written, part_num>>
    /\ idx' = idx + 1
    /\ UNCHANGED <<script, lines, i, sections, current_section, section_index,
                   max_file_size, current_output, record_count, ft_vars, pc>>

A_WriteEnd ==
    /\ script = 1 /\ pc = "write" /\ idx = Len(sections)
    /\ IF output_records # <<>>
       THEN /\ dir' = WriteFile(dir, ShardNameA(part_num), output_records)
            /\ written' = written \cup {ShardNameA(part_num)}
       ELSE UNCHANGED <<dir, written>>
    /\ pc' = "converted"
    /\ UNCHANGED <<script, lines, i, sections, current_section, section_index,
                   max_file_size, idx, current_file_size, part_num,
                   output_records, current_output, record_count, ft_vars>>

\* ----------------------------------------------- script 2: writer (83-129)
RecordB(section) ==
    [id |-> id_prefix \o Decimal03(section.section_index),
     source_file |-> guide_source,
     section_index |-> section.section_index,
     heading_level |-> section.heading_level,
     title |-> section.title,
     content |-> section.content,
     content_length |-> section.content_length]

\* output_file.replace('.ndjson', f'_part_{part_num}.ndjson')
ShardNameB(output_file, n) ==
    Replace(output_file, dot_ndjson, part_infix \o Decimal(n) \o dot_ndjson)

B_WriteRecord ==
    /\ script = 2 /\ pc = "write" /\ idx < Len(sections)
    /\ LET line == Dumps(RecordB(sections[idx + 1]))
           line_size == LineSize(line)
           close == NeedNewFile(current_file_size, max_file_size, line_size,
                                current_output # None)
           num == IF close THEN part_num + 1 ELSE part_num
           size == IF close THEN 0 ELSE current_file_size
           open == close \/ current_output = None
           path == IF open THEN ShardNameB(base_output \o dot_ndjson, num)
                   ELSE current_output.name
       IN  /\ part_num' = num
           /\ current_output' = [name |-> path]
           /\ written' = IF open THEN written \cup {path} ELSE written
           /\ dir' = WriteFile(dir, path,
                               IF open THEN <<line>> ELSE Append(dir[path], line))
           /\ current_file_size' = size + line_size
    /\ record_count' = record_count + 1
    /\ idx' = idx + 1
    /\ UNCHANGED <<script, lines, i, sections, current_section, section_index,
                   max_file_size, output_records, ft_vars, pc>>

B_WriteEnd ==
    /\ script = 2 /\ pc = "write" /\ idx = Len(sections)
    /\ current_output' = None
    /\ pc' = "converted"
    /\ UNCHANGED <<script, lines, i, sections, current_section, section_index,
                   max_file_size, idx, current_file_size, part_num,
                   output_records, record_count, written, ft_vars, dir>>

\* ------------------------------- script 2: fine-tuning transformer (131-188)
\* the characters of file names, in the order of their code points
CodeOrder ==
    <<"-", ".", "0", "1", "2", "3", "4", "5", "6", "7", "8", "9", "_",
      "a", "b", "c", "d", "e", "f", "g", "h", "i", "j", "k", "l", "m",
      "n", "o", "p", "q", "r", "s", "t", "u", "v", "w", "x", "y", "z">>

Ord(c) == CHOOSE k \in 1..Len(CodeOrder) : CodeOrder[k] = c

RECURSIVE StrLess(_, _)
\* a < b for Python strings
StrLess(a, b) ==
    IF b = <<>> THEN FALSE
    ELSE IF a = <<>> THEN TRUE
    ELSE IF Head(a) = Head(b) THEN StrLess(Tail(a), Tail(b))
    ELSE Ord(Head(a)) < Ord(Head(b))

RECURSIVE Sorted(_)
\* sorted(names)
Sorted(names) ==
    IF names = {} THEN <<>>
    ELSE LET least == CHOOSE x \in names : \A y \in names \ {x} : StrLess(x, y)
         IN  <<least>> \o Sorted(names \ {least})

\* input_file.rsplit('.', 1)[0] if '.' in input_file else input_file
BasePath(path) ==
    IF \E k \in 1..Len(path) : path[k] = "."
    THEN LET last == CHOOSE k \in 1..Len(path) :
                         path[k] = "." /\ \A m \in (k + 1)..Len(path) : path[m] # "."
         IN  SubSeq(path, 1, last - 1)
    ELSE path

\* glob.glob(f"{base_path}_part_*.ndjson") in directory d
Glob(d, base_path) ==
    {n \in DOMAIN d :
        /\ Len(n) >= Len(base_path) + Len(part_infix) + Len(dot_ndjson)
        /\ StartsWith(n, base_path \o part_infix)
        /\ EndsWith(n, dot_ndjson)}

\* a faulty filter: every file the pattern matches is kept
NotFinetuned_Off(f) == TRUE

\* not f.endswith('_finetuning.ndjson')
NotFinetuned(f) == ~EndsWith(f, finetuning_suffix)

\* part_files after the filter of line 146
PartFiles(d, path) ==
    SelectSeq(Sorted(Glob(d, BasePath(path))), NotFinetuned)

\* a faulty test: text that is no JSON is passed over like a blank line
IsBlank_OrBad(line) == line.t \in {"blank", "bad"}

\* not line.strip()
IsBlank(line) == line.t = "blank"

\* json.loads raises JSONDecodeError
NotJson(line) == line.t = "bad"

StringKeys == {"id", "source_file", "title", "content"}

\* json.loads(line.strip()) of the text of an object
Loads(line) ==
    [key \in DOMAIN line.v |->
        IF key \in StringKeys THEN Unescape(line.v[key]) ELSE line.v[key]]

\* the members lines 171 and 177 read
RequiredKeys == {"title", "heading_level", "source_file", "content"}

\* a KeyError is raised
MissingKey(record) == ~(RequiredKeys \subseteq DOMAIN record)

\* a faulty record: the user entry holds the start of the content only
FinetuningRecord_Truncated(record) ==
    [messages |->
        << [role |-> "system",
            content |-> <<"Section: ">> \o record.title
                        \o <<"\n", "Level: H">> \o Decimal(record.heading_level)
                        \o <<"\n", "Source: ">> \o record.source_file],
           [role |-> "user", content |-> SubSeq(record.content, 1, 2)],
           [role |-> "assistant",
            content |-> <<"This documentation has been reviewed and is ready for reference.">>] >>]

\* lines 171-180; the fixed pieces of text are kept as one element each
FinetuningRecord(record) ==
    [messages |->
        << [role |-> "system",
            content |-> <<"Section: ">> \o record.title
                        \o <<"\n", "Level: H">> \o Decimal(record.heading_level)
                        \o <<"\n", "Source: ">> \o record.source_file],
           [role |-> "user", content |-> record.content],
           [role |-> "assistant",
            content |-> <<"This documentation has been reviewed and is ready for reference.">>] >>]

\* json.dumps(finetuning_record, ensure_ascii=False)
DumpsMessages(ft) ==
    [t |-> "obj",
     v |-> [messages |->
               [k \in 1..Len(ft.messages) |->
                   [role |-> ft.messages[k].role,
                    content |-> Escape(ft.messages[k].content)]]]]

\* input_path.replace('.ndjson', '_finetuning.ndjson')
OutputPath(input_path) == Replace(input_path, dot_ndjson, finetuning_suffix)

\* lines 136-155: the call, up to the loop over the input files
FT_Start ==
    /\ pc = "ft_call"
    /\ runs' = runs + 1
    /\ opened' = <<>>
    /\ fk' = 0
    /\ lineno' = 0
    /\ LET part_files == PartFiles(dir, input_file)
       IN  IF part_files = <<>>
           THEN IF EndsWith(input_file, finetuning_suffix)
                THEN /\ pc' = "ft_return"
                     /\ input_files' = <<>>
                ELSE /\ pc' = "ft_loop"
                     /\ input_files' = <<input_file>>
           ELSE /\ pc' = "ft_loop"
                /\ input_files' = part_files
    /\ UNCHANGED <<convert_vars, input_file, output_path, first_dir, error, dir>>

\* lines 157-162: the next input file and its output file are opened
FT_Open ==
    /\ pc = "ft_loop" /\ fk < Len(input_files)
    /\ LET input_path == input_files[fk + 1]
       IN  IF input_path \in DOMAIN dir
           THEN /\ opened' = Append(opened, input_path)
                /\ output_path' = OutputPath(input_path)
                /\ dir' = WriteFile(dir, OutputPath(input_path), <<>>)
                /\ lineno' = 0
                /\ pc' = "ft_read"
                /\ UNCHANGED error
           ELSE /\ error' = "FileNotFoundError"
                /\ pc' = "ft_error"
                /\ UNCHANGED <<opened, output_path, dir, lineno>>
    /\ UNCHANGED <<convert_vars, input_file, input_files, fk, runs, first_dir>>

\* lines 163-185: one line of the input file
FT_Line ==
    /\ pc = "ft_read" /\ lineno < Len(dir[input_files[fk + 1]])
    /\ LET line == dir[input_files[fk + 1]][lineno + 1]
       IN  IF IsBlank(line)
           THEN UNCHANGED <<dir, pc, error>>
           ELSE IF NotJson(line)
           THEN /\ error' = "JSONDecodeError"
                /\ pc' = "ft_error"
                /\ UNCHANGED dir
           ELSE IF MissingKey(Loads(line))
           THEN /\ error' = "KeyError"
                /\ pc' = "ft_error"
                /\ UNCHANGED dir
           ELSE /\ dir' = WriteFile(dir, output_path,
                              Append(dir[output_path],
                                     DumpsMessages(FinetuningRecord(Loads(line)))))
                /\ UNCHANGED <<pc, error>>
    /\ lineno' = lineno + 1
    /\ UNCHANGED <<convert_vars, input_file, input_files, fk, output_path,
                   opened, runs, first_dir>>

\* the end of the input file: both files are closed
FT_Close ==
    /\ pc = "ft_read" /\ lineno = Len(dir[input_files[fk + 1]])
    /\ fk' = fk + 1
    /\ pc' = "ft_loop"
    /\ UNCHANGED <<convert_vars, input_file, input_files, lineno, output_path,
                   opened, runs, first_dir, error, dir>>

\* the loop is over: the call returns
FT_Return ==
    /\ pc = "ft_loop" /\ fk = Len(input_files)
    /\ pc' = "ft_return"
    /\ UNCHANGED <<convert_vars, ft_vars, dir>>

\* the same call is made once more, after the call before it returned or failed
FT_Again ==
    /\ pc \in {"ft_return", "ft_error"} /\ runs < MaxRuns
    /\ first_dir' = IF runs = 1 THEN dir ELSE first_dir
    /\ error' = "none"
    /\ pc' = "ft_call"
    /\ UNCHANGED <<convert_vars, input_file, input_files, fk, lineno,
                   output_path, opened, runs, dir>>

\* ------------------------------------------------- the two converters
InitConvertVars ==
    /\ lines \in Documents
    /\ i = 0
    /\ sections = <<>>
    /\ section_index = 0
    /\ max_file_size = 0
    /\ idx = 0
    /\ current_file_size = 0
    /\ part_num = 1
    /\ output_records = <<>>
    /\ current_output = None
    /\ record_count = 0
    /\ written = {}

InitFtIdle ==
    /\ input_file = <<>>
    /\ input_files = <<>>
    /\ fk = 0
    /\ lineno = 0
    /\ output_path = <<>>
    /\ opened = <<>>
    /\ runs = 0
    /\ first_dir = NoFiles
    /\ error = "none"

Init ==
    /\ script \in {1, 2}
    /\ current_section =
           IF script = 1
           THEN [title |-> Introduction, level |-> 0, content |-> <<>>]
           ELSE None
    /\ InitConvertVars
    /\ InitFtIdle
    /\ pc = "split"
    /\ dir = NoFiles

Next ==
    \/ A_SplitLine
    \/ A_SplitEnd
    \/ A_WriteRecord
    \/ A_WriteEnd
    \/ B_SplitLine
    \/ B_SplitEnd
    \/ B_WriteRecord
    \/ B_WriteEnd

Spec == Init /\ [][Next]_vars

\* ------------------------------------------------ the transformer alone
\* a record line as an earlier run or another tool may have written it
SampleLine(n) ==
    Dumps([id |-> file_name \o section_infix \o Decimal(n),
           source_file |-> file_name,
           section_index |-> n,
           heading_level |-> 1 + (n % 3),
           title |-> <<"T">>,
           content |-> <<"a", "\n">> \o Decimal(n),
           content_length |-> 2 + Len(Decimal(n))])

\* the text of an object without one of its members
Without(line, key) ==
    [line EXCEPT !.v = [k \in (DOMAIN line.v) \ {key} |-> line.v[k]]]

GoodLines == {SampleLine(0), SampleLine(1), [t |-> "blank"]}

FaultyLines ==
    {[t |-> "bad"]} \cup {Without(SampleLine(0), key) : key \in RequiredKeys}

\* the contents tried for a shard: good lines, then possibly a faulty one
ShardContents ==
    {good \o tail : good \in SeqsUpTo(GoodLines, MaxShardLines),
                    tail \in {<<>>} \cup {<<f>> : f \in FaultyLines}}

main_input == base_output \o dot_ndjson

\* shards 1..n of the guide, the last but one (or the only one) with the
\* contents given, the others with one good record each
ShardDir(n, contents) ==
    [name \in {ShardNameB(main_input, k) : k \in 1..n} |->
        LET k == CHOOSE m \in 1..n : name = ShardNameB(main_input, m)
        IN  IF k = (IF n = 1 THEN 1 ELSE 2) THEN contents ELSE <<SampleLine(k)>>]

InitialDirs ==
    {NoFiles}
    \cup {WriteFile(NoFiles, main_input, c) : c \in ShardContents}
    \cup {ShardDir(n, c) : n \in 1..MaxParts, c \in ShardContents}

FtInputs ==
    {main_input,
     OutputPath(main_input),
     ShardNameB(main_input, 1),
     OutputPath(ShardNameB(main_input, 1))}

InitConvertIdle ==
    /\ script = 2
    /\ lines = <<>>
    /\ i = 0
    /\ sections = <<>>
    /\ current_section = None
    /\ section_index = 0
    /\ max_file_size = 0
    /\ idx = 0
    /\ current_file_size = 0
    /\ part_num = 1
    /\ output_records = <<>>
    /\ current_output = None
    /\ record_count = 0
    /\ written = {}

InitFT ==
    /\ InitConvertIdle
    /\ input_file \in FtInputs
    /\ input_files = <<>>
    /\ fk = 0
    /\ lineno = 0
    /\ output_path = <<>>
    /\ opened = <<>>
    /\ runs = 0
    /\ first_dir = NoFiles
    /\ error = "none"
    /\ pc = "ft_call"
    /\ dir \in InitialDirs

NextFT ==
    \/ FT_Start
    \/ FT_Open
    \/ FT_Line
    \/ FT_Close
    \/ FT_Return
    \/ FT_Again

SpecFT == InitFT /\ [][NextFT]_vars

\* ------------------------------------------------- main of script 2 (190-215)
\* line 213: the transformer is called on what the writer was given
Main_Step2 ==
    /\ script = 2 /\ pc = "converted"
    /\ input_file' = main_input
    /\ pc' = "ft_call"
    /\ UNCHANGED <<convert_vars, input_files, fk, lineno, output_path, opened,
                   runs, first_dir, error, dir>>

\* shards 1..n left in the output directory by an earlier run of main
StaleDir(n) ==
    [name \in {ShardNameB(main_input, k) : k \in 1..n} |->
        <<SampleLine(CHOOSE m \in 1..n : name = ShardNameB(main_input, m))>>]

InitMain ==
    /\ script = 2
    /\ current_section = None
    /\ InitConvertVars
    /\ InitFtIdle
    /\ pc = "split"
    /\ dir \in {StaleDir(n) : n \in 0..MaxStale}

NextMain ==
    \/ B_SplitLine
    \/ B_SplitEnd
    \/ B_WriteRecord
    \/ B_WriteEnd
    \/ Main_Step2
    \/ FT_Start
    \/ FT_Open
    \/ FT_Line
    \/ FT_Close
    \/ FT_Return

SpecMain == InitMain /\ [][NextMain]_vars

\* ===================================================== properties: converters
\* what the specification calls a heading line: one to three '#', then a space
\* (script 1), or then white space and at least one more character (script 2)
IsHeadingLine(line) ==
    \E h \in 1..3 :
        /\ Len(line) > h
        /\ \A k \in 1..h : line[k] = "#"
        /\ IF script = 1 THEN line[h + 1] = " "
           ELSE line[h + 1] \in Whitespace /\ Len(line) >= h + 2

HeadingLines == SelectSeq(lines, IsHeadingLine)

\* the splitter has just returned (sections is not assigned to afterwards)
SplitterReturned == pc = "write" /\ idx = 0

\* the content lines of a returned section
ContentLines(section) ==
    IF script = 1 THEN section.content ELSE SplitOn(section.content, "\n")

\* a returned section that stands for a heading of the document
HasHeading(section) == script = 2 \/ section.level # 0

RECURSIVE Rebuild(_, _)
\* the sections in order, each heading line put back before its content lines
Rebuild(secs, heads) ==
    IF secs = <<>> THEN <<>>
    ELSE IF HasHeading(Head(secs))
         THEN (IF heads = <<>> THEN <<>> ELSE <<Head(heads)>>)
              \o ContentLines(Head(secs))
              \o Rebuild(Tail(secs), IF heads = <<>> THEN heads ELSE Tail(heads))
         ELSE ContentLines(Head(secs)) \o Rebuild(Tail(secs), heads)

RoundTrip == Rebuild(sections, HeadingLines) = lines

\* the content lines between the heading at position p and the next heading
Block(p) ==
    LET stop == IF \E q \in (p + 1)..Len(lines) : IsHeadingLine(lines[q])
                THEN CHOOSE q \in (p + 1)..Len(lines) :
                         /\ IsHeadingLine(lines[q])
                         /\ \A m \in (p + 1)..(q - 1) : ~IsHeadingLine(lines[m])
                ELSE Len(lines) + 1
    IN  SubSeq(lines, p + 1, stop - 1)

\* script 1 loses the heading at p: its section is empty when the next
\* heading is of level 2 or 3, or it is titled Introduction
LosesHeadingA(p) ==
    /\ Block(p) = <<>>
    /\ \/ /\ p < Len(lines)
          /\ \E h \in 2..3 : StartsWith(lines[p + 1], [k \in 1..h |-> "#"] \o <<" ">>)
       \/ Strip(LStripSet(lines[p], {"#", " "})) = Introduction

\* script 2 keeps the block after the heading at p as it is: the block is not
\* empty and strip() removes nothing but the last line feed
KeepsBlockB(p) ==
    LET b == Block(p)
    IN  /\ b # <<>>
        /\ b[1] # <<>> /\ b[1][1] \notin Whitespace
        /\ b[Len(b)] # <<>> /\ b[Len(b)][Len(b[Len(b)])] \notin Whitespace

Lossless ==
    IF script = 1
    THEN \A p \in 1..Len(lines) : IsHeadingLine(lines[p]) => ~LosesHeadingA(p)
    ELSE /\ IsHeadingLine(lines[1])
         /\ \A p \in 1..Len(lines) : IsHeadingLine(lines[p]) => KeepsBlockB(p)

RECURSIVE Flatten(_)
Flatten(seqs) == IF seqs = <<>> THEN <<>> ELSE Head(seqs) \o Flatten(Tail(seqs))

ShardName(n) ==
    IF script = 1 THEN ShardNameA(n) ELSE ShardNameB(base_output \o dot_ndjson, n)

\* the record the writer of the running script makes of the k-th section
RecordOf(k) ==
    IF script = 1 THEN RecordA(k - 1, sections[k]) ELSE RecordB(sections[k])

RECURSIVE ReadShards(_)
\* the lines of shards 1..n read in numerical order (a missing one reads empty)
ReadShards(n) ==
    IF n = 0 THEN <<>>
    ELSE ReadShards(n - 1)
         \o (IF ShardName(n) \in DOMAIN dir THEN dir[ShardName(n)] ELSE <<>>)

\* C1: a shard is no larger than max_file_size, unless it holds exactly one
\* record that alone is larger
C1_ShardSizeBounded ==
    \A n \in written :
        n \in DOMAIN dir =>
            \/ FileSize(dir[n]) <= max_file_size
            \/ Len(dir[n]) = 1 /\ LineSize(dir[n][1]) > max_file_size

C1_Witness ==
    /\ script = 1 /\ pc = "converted" /\ Cardinality(written) = 2
    /\ Len(dir[ShardName(1)]) = 2
    /\ FileSize(dir[ShardName(1)]) + LineSize(dir[ShardName(2)][1]) > max_file_size

\* C2: the shards of a run are numbered 1..N, none is empty, and read in that
\* order they are the records of the sections, each once and in order
C2_ShardsPartitionRecords ==
    pc = "converted" =>
        LET N == Cardinality(written)
        IN  /\ written = {ShardName(n) : n \in 1..N}
            /\ written \subseteq DOMAIN dir
            /\ \A n \in written : dir[n] # <<>>
            /\ ReadShards(N) = [k \in 1..Len(sections) |-> Dumps(RecordOf(k))]
            /\ sections = <<>> => DOMAIN dir = {}

C2_Witness ==
    /\ script = 2 /\ pc = "converted" /\ Cardinality(written) = 2
    /\ Len(sections) = 2 /\ dir[ShardName(1)] # dir[ShardName(2)]

\* the records in the shard files so far, in the order they were written
Emitted ==
    LET text == ReadShards(part_num)
    IN  [k \in 1..Len(text) |-> text[k].v]

\* C9: the records of a document carry section_index 0, 1, 2, ... in the order
\* they are written, and no two of them the same id
C9_IndexAndIdDistinct ==
    /\ \A k \in 1..Len(Emitted) : Emitted[k].section_index = k - 1
    /\ \A j, k \in 1..Len(Emitted) : j # k => Emitted[j].id # Emitted[k].id

C9_Witness ==
    /\ script = 2 /\ pc = "converted" /\ Len(Emitted) >= 1
    /\ IsHeadingLine(lines[1]) /\ IsHeadingLine(lines[2])

\* ================================================== properties: transformer
NonBlankLines(file) == SelectSeq(file, LAMBDA l : l.t # "blank")

\* the text of a record with the members the transformer needs
ValidRecordLine(l) == l.t = "obj" /\ RequiredKeys \subseteq DOMAIN l.v

AllValid(file) ==
    \A k \in 1..Len(file) : file[k].t = "blank" \/ ValidRecordLine(file[k])

\* the fine-tuning line out is what the claim asks for the record line in
Transformed(in, out) ==
    /\ out.t = "obj"
    /\ DOMAIN out.v = {"messages"}
    /\ Len(out.v.messages) = 3
    /\ [k \in 1..3 |-> out.v.messages[k].role] = <<"system", "user", "assistant">>
    /\ Unescape(out.v.messages[2].content) = Unescape(in.v.content)

\* the output file of input file f holds one fine-tuning record for each
\* non-blank line of f, in the order of the lines
Complete(f) ==
    LET in == NonBlankLines(dir[f])
        out == dir[Replace(f, dot_ndjson, finetuning_suffix)]
    IN  /\ Len(out) = Len(in)
        /\ \A k \in 1..Len(in) : Transformed(in[k], out[k])

\* C5: a shard whose non-blank lines are all valid records, once processed,
\* has an output file with one fine-tuning record per non-blank line, in
\* order, roles system, user, assistant, the user content the record's content
C5_OneRecordPerLine ==
    \A m \in 1..fk : AllValid(dir[input_files[m]]) => Complete(input_files[m])

C5_Witness ==
    /\ pc = "ft_return" /\ fk >= 2
    /\ \E m \in 1..fk :
           LET file == dir[input_files[m]]
           IN  /\ Len(file) = 2 /\ file[1].t = "blank" /\ ValidRecordLine(file[2])
               /\ Len(dir[OutputPath(input_files[m])]) = 1

\* C6 as stated: several shards are processed in the order of their numbers
C6_ShardNumberOrder ==
    (input_file = main_input /\ runs >= 1 /\ Len(input_files) >= 2) =>
        \A k \in 1..Len(opened) : opened[k] = ShardNameB(main_input, k)

DoubleSuffix == SubSeq(finetuning_suffix, 1, 11) \o finetuning_suffix

\* C7: no file named ..._finetuning.ndjson is opened as an input, none named
\* ..._finetuning_finetuning.ndjson comes to exist, a call on a suffixed file
\* writes nothing, and a second call leaves the directory as the first did
C7_Idempotent ==
    /\ \A k \in 1..Len(opened) : ~EndsWith(opened[k], finetuning_suffix)
    /\ \A n \in DOMAIN dir : ~EndsWith(n, DoubleSuffix)
    /\ EndsWith(input_file, finetuning_suffix) =>
           /\ opened = <<>>
           /\ \A n \in DOMAIN dir : ~EndsWith(n, finetuning_suffix)
    /\ (pc \in {"ft_return", "ft_error"} /\ runs >= 2) => dir = first_dir

C7_Witness ==
    /\ pc = "ft_return" /\ runs = 2 /\ fk >= 2 /\ dir = first_dir
    /\ \E n \in DOMAIN dir : EndsWith(n, finetuning_suffix) /\ Len(dir[n]) = 2

\* C8: a line that is no valid JSON, or a record without a needed member,
\* stops the transformer at that line: the line is not skipped, no later
\* shard is opened, and the outputs of the shards before are complete
C8_StopsAtFaultyLine ==
    /\ (pc = "ft_error" /\ error # "FileNotFoundError") =>
           LET file == dir[input_files[fk + 1]]
           IN  /\ file[lineno].t # "blank" /\ ~ValidRecordLine(file[lineno])
               /\ AllValid(SubSeq(file, 1, lineno - 1))
               /\ Len(dir[output_path])
                      = Len(NonBlankLines(SubSeq(file, 1, lineno - 1)))
               /\ opened = SubSeq(input_files, 1, fk + 1)
               /\ \A m \in 1..fk : Complete(input_files[m])
    /\ pc = "ft_return" =>
           \A m \in 1..Len(input_files) : AllValid(dir[input_files[m]])

C8_Witness ==
    /\ pc = "ft_error" /\ error = "KeyError" /\ fk >= 2 /\ lineno = 3
    /\ Len(dir[output_path]) = 1

\* C10 as stated: main's transformer reads exactly the shards main's writer
\* wrote
C10_ReadsOnlyWritten ==
    (script = 2 /\ pc \in {"ft_return", "ft_error"}) =>
        {opened[k] : k \in 1..Len(opened)} = written

====
